---- MODULE Spec2Model ----
(***************************************************************************)
(* Model of the route-planning endpoint of the fleet assistant backend     *)
(* (backend/main.py, optimize_and_save_route) and of the services it       *)
(* drives (backend/services.py: RoutingService, GeminiService,             *)
(* FirebaseService).                                                       *)
(*                                                                         *)
(* Python values are represented as follows:                               *)
(*   - a list [lon, lat] of floats is the sequence <<lon, lat>>;           *)
(*   - None in a list of coordinates is the empty sequence <<>>;           *)
(*   - an exception is a record [class, status, detail], detail being the  *)
(*     message as a sequence of string fragments;                          *)
(*   - time is counted in ticks, TicksPerSecond ticks to the second.       *)
(***************************************************************************)
EXTENDS Integers, Sequences, FiniteSets, TLC

VARIABLES
    pc,             \* position of the request handler
    request,        \* the RouteOptimizationRequest being served
    all_addresses,  \* main.py local: [origin] + stops + [destination]
    now,            \* the event loop's clock, in ticks
    taskpc,         \* per lookup task: "created", "sleeping", "waiting", "done"
    wake,           \* per lookup task: the tick at which asyncio.sleep(1) ends
    sendTime,       \* per lookup task: the tick at which client.get was issued
    resp,           \* per lookup task: what the geocoding provider answered
    taskResult,     \* per lookup task: what the coroutine returned or raised
    arrivals,       \* indices of the lookup tasks in order of completion
    results,        \* the result list asyncio.gather is filling
    coordinates,    \* main.py local: value returned by the geocoding batch
    orsCalls,       \* bodies POSTed to the routing provider, in order
    orsReply,       \* what get_route_with_ors returned or raised
    duration_min,   \* main.py local
    geminiReply,    \* what the text-generation upstream answered
    natural_summary,\* main.py local
    saved,          \* documents written to the "rotas" collection, in order
    error           \* the exception that ended the request, or NoError

vars == <<pc, request, all_addresses, now, taskpc, wake,
          sendTime, resp, taskResult, arrivals, results, coordinates,
          orsCalls, orsReply, duration_min, geminiReply, natural_summary, saved,
          error>>

----------------------------------------------------------------------------
(* Bounds *)

MaxStops == 1

MaxTime == 3

TicksPerSecond == 2

MaxHalfMinutes == 5

MaxCoords == 3

(* Program constants *)

SleepSeconds == 1

NominatimRatePerSecond == 1

AddressSet == {"Praca da Se, Sao Paulo", "xyzzy"}

DefaultRouteName == "Rota sem nome"

----------------------------------------------------------------------------
(* Values *)

None == <<>>

Unset == <<>>

NoError == [class |-> "none", status |-> 0, detail |-> <<>>]

NoReply == [kind |-> "none", features |-> 0, duration |-> 0, exc |-> NoError]

HTTPException(status_code, detail) ==
    [class |-> "HTTPException", status |-> status_code, detail |-> detail]

OtherException(class, message) ==
    [class |-> class, status |-> 0, detail |-> message]

\* str(e): an HTTPException prints as "<status_code>: <detail>", any other
\* exception as its message.
Str(e) ==
    IF e.class = "HTTPException"
    THEN <<ToString(e.status), ": ">> \o e.detail
    ELSE e.detail

SleepTicks == SleepSeconds * TicksPerSecond

\* Minimum spacing between two requests the provider's cap allows.
MinIntervalTicks == TicksPerSecond \div NominatimRatePerSecond

----------------------------------------------------------------------------
(* models.py *)

Stop == [address : AddressSet]

StopSeqs == UNION {[1..n -> Stop] : n \in 0..MaxStops}

RouteOptimizationRequest ==
    [origin : AddressSet, stops : StopSeqs, destination : AddressSet,
     routeName : {DefaultRouteName}]

NoRequest == [origin |-> "", stops |-> <<>>, destination |-> "", routeName |-> ""]

----------------------------------------------------------------------------
(* The geocoding provider *)

GeocodeResponses == {"found", "empty", "http_error", "timeout"}

\* First element of the provider's JSON answer for an address it resolves;
\* lon and lat arrive as strings.
NominatimData(address) ==
    IF address = "xyzzy"
    THEN [lon |-> "-43", lat |-> "-22"]
    ELSE [lon |-> "-46", lat |-> "-23"]

\* float(s) on the strings the provider sends.
Float(s) ==
    CASE s = "-46" -> -46
      [] s = "-23" -> -23
      [] s = "-43" -> -43
      [] s = "-22" -> -22

Return(v) == [kind |-> "return", value |-> v, exc |-> NoError]

Raise(e) == [kind |-> "raise", value |-> None, exc |-> e]

NoResult == [kind |-> "none", value |-> None, exc |-> NoError]

\* Variant of the lookup in which an HTTP error escapes the coroutine.
GeocodeOutcomePropagating(address, r) ==
    CASE r = "found" ->
            Return(<<Float(NominatimData(address).lon),
                     Float(NominatimData(address).lat)>>)
      [] r = "empty" -> Return(None)
      [] r = "http_error" -> Raise(OtherException("HTTPStatusError", <<"Client error">>))
      [] r = "timeout" -> Return(None)

\* What _geocode_address_with_nominatim_async returns once the provider
\* has answered r.
GeocodeOutcome(address, r) ==
    CASE r = "found" ->
            Return(<<Float(NominatimData(address).lon),
                     Float(NominatimData(address).lat)>>)
      [] r = "empty" -> Return(None)
      [] r = "http_error" -> Return(None)
      [] r = "timeout" -> Return(None)

\* Variant of gather that files results in order of arrival.
GatherSlotByArrival(i, arrived) == arrived + 1

\* The position of asyncio.gather's result list that receives the value of
\* the i-th awaitable, `arrived` lookups having completed before it.
GatherSlot(i, arrived) == i

----------------------------------------------------------------------------
(* Python built-ins *)

\* Variant that returns the last position holding x.
IndexLast(seq, x) ==
    CHOOSE i \in 1..Len(seq) :
        seq[i] = x /\ \A j \in (i+1)..Len(seq) : seq[j] # x

\* list.index(x), 1-based: the first position holding x.
Index(seq, x) ==
    CHOOSE i \in 1..Len(seq) :
        seq[i] = x /\ \A j \in 1..(i-1) : seq[j] # x

\* Variant that never sees an absent position.
NoneInNever(seq) == FALSE

\* `None in seq`
NoneIn(seq) == \E i \in 1..Len(seq) : seq[i] = None

\* Variant rounding halves up.
RoundHalfUp(n, d) == (2 * n + d) \div (2 * d)

\* round(n / d) for non-negative integers n and d > 0: nearest integer,
\* ties to the even one.
Round(n, d) ==
    LET q == n \div d
        r == n % d
    IN  IF 2 * r < d THEN q
        ELSE IF 2 * r > d THEN q + 1
        ELSE IF q % 2 = 0 THEN q ELSE q + 1

----------------------------------------------------------------------------
(* The routing provider *)

DurationSet ==
    {d \in {30 * k + j : k \in 0..MaxHalfMinutes, j \in {-1, 0, 1}} : d >= 0}

OrsReplies ==
    {[kind |-> "json", features |-> 1, duration |-> d, exc |-> NoError] :
        d \in DurationSet}
    \cup {[kind |-> "json", features |-> 0, duration |-> 0, exc |-> NoError]}
    \cup {[kind |-> "raise", features |-> 0, duration |-> 0,
           exc |-> OtherException("HTTPStatusError", <<"Client error">>)]}
    \cup {[kind |-> "raise", features |-> 0, duration |-> 0,
           exc |-> OtherException("ReadTimeout", <<"timed out">>)]}

IndexError == OtherException("IndexError", <<"list index out of range">>)

----------------------------------------------------------------------------
(* The text-generation service *)

\* "no_key" stands for a process started without GEMINI_API_KEY.
GeminiResponses == {"ok", "no_key", "http_error", "invalid", "unexpected"}

\* Variant in which a failure of the text generation is swallowed.
GenerateContentLenient(g) == Return(<<"resumo">>)

\* GeminiService.generate_content, the upstream having answered g.
GenerateContent(g) ==
    CASE g = "no_key" ->
            Raise(HTTPException(500, <<"GEMINI_API_KEY nao configurada.">>))
      [] g = "ok" -> Return(<<"resumo">>)
      [] g = "http_error" ->
            Raise(HTTPException(429, <<"Erro na API Gemini: ", "upstream">>))
      [] g = "invalid" ->
            Raise(HTTPException(500,
                <<"Erro inesperado no Gemini Service: ">>
                \o Str(HTTPException(500, <<"Resposta invalida da API Gemini.">>))))
      [] g = "unexpected" ->
            Raise(HTTPException(500,
                <<"Erro inesperado no Gemini Service: ", "timed out">>))

----------------------------------------------------------------------------
(* Initial state *)

Idle ==
    /\ request = NoRequest
    /\ all_addresses = <<>>
    /\ now = 0
    /\ taskpc = <<>>
    /\ wake = <<>>
    /\ sendTime = <<>>
    /\ resp = <<>>
    /\ taskResult = <<>>
    /\ arrivals = <<>>
    /\ results = <<>>
    /\ orsCalls = <<>>
    /\ orsReply = NoReply
    /\ duration_min = 0
    /\ geminiReply = "none"
    /\ natural_summary = Unset
    /\ saved = <<>>
    /\ error = NoError

Init ==
    /\ pc = "idle"
    /\ coordinates = Unset
    /\ Idle

Tasks == 1..Len(all_addresses)

----------------------------------------------------------------------------
(* optimize_and_save_route, up to the start of the geocoding batch *)

ReceiveRequest ==
    /\ pc = "idle"
    /\ \E req \in RouteOptimizationRequest :
        LET addrs == <<req.origin>>
                     \o [k \in 1..Len(req.stops) |-> req.stops[k].address]
                     \o <<req.destination>>
        IN  /\ request' = req
            /\ all_addresses' = addrs
            /\ taskpc' = [i \in 1..Len(addrs) |-> "created"]
            /\ wake' = [i \in 1..Len(addrs) |-> 0]
            /\ sendTime' = [i \in 1..Len(addrs) |-> 0]
            /\ resp' = [i \in 1..Len(addrs) |-> "none"]
            /\ taskResult' = [i \in 1..Len(addrs) |-> NoResult]
            /\ results' = [i \in 1..Len(addrs) |-> None]
    /\ pc' = "geocoding"
    /\ UNCHANGED <<now, arrivals, coordinates, orsCalls,
                   orsReply, duration_min, natural_summary, saved, error, geminiReply>>

\* The event loop's clock advances.  Time is capped at MaxTime, and a task
\* that has not started sleeping yet holds the clock back far enough for its
\* sleep to end within the cap.  The clock is followed for as long as a
\* lookup has yet to issue its request.
Tick ==
    /\ pc = "geocoding"
    /\ now < MaxTime
    /\ \E i \in Tasks : taskpc[i] \in {"created", "sleeping"}
    /\ \A i \in Tasks : taskpc[i] = "created" => now + 1 + SleepTicks <= MaxTime
    /\ now' = now + 1
    /\ UNCHANGED <<pc, request, all_addresses, taskpc, wake,
                   sendTime, resp, taskResult, arrivals, results, coordinates,
                   orsCalls, orsReply, duration_min, natural_summary, saved,
                   error, geminiReply>>

\* A lookup task runs up to `await asyncio.sleep(1)`.
TaskSleep(i) ==
    /\ pc = "geocoding"
    /\ taskpc[i] = "created"
    /\ taskpc' = [taskpc EXCEPT ![i] = "sleeping"]
    /\ wake' = [wake EXCEPT ![i] = now + SleepTicks]
    /\ UNCHANGED <<pc, request, all_addresses, now,
                   sendTime, resp, taskResult, arrivals, results, coordinates,
                   orsCalls, orsReply, duration_min, natural_summary, saved,
                   error, geminiReply>>

\* The sleep is over (its timer is consumed): the task issues client.get.
TaskSend(i) ==
    /\ pc = "geocoding"
    /\ taskpc[i] = "sleeping"
    /\ now >= wake[i]
    /\ taskpc' = [taskpc EXCEPT ![i] = "waiting"]
    /\ wake' = [wake EXCEPT ![i] = 0]
    /\ sendTime' = [sendTime EXCEPT ![i] = now]
    /\ UNCHANGED <<pc, request, all_addresses, now, resp,
                   taskResult, arrivals, results, coordinates, orsCalls,
                   orsReply, duration_min, natural_summary, saved, error, geminiReply>>

\* The provider's answer r arrives (or the request times out); the coroutine
\* returns and gather files its value.
TaskComplete(i) ==
    /\ pc = "geocoding"
    /\ taskpc[i] = "waiting"
    /\ \E r \in GeocodeResponses :
        LET out == GeocodeOutcome(all_addresses[i], r)
        IN  /\ resp' = [resp EXCEPT ![i] = r]
            /\ taskResult' = [taskResult EXCEPT ![i] = out]
            /\ results' = [results EXCEPT ![GatherSlot(i, Len(arrivals))] = out.value]
    /\ taskpc' = [taskpc EXCEPT ![i] = "done"]
    /\ arrivals' = Append(arrivals, i)
    /\ UNCHANGED <<pc, request, all_addresses, now, wake,
                   sendTime, coordinates, orsCalls, orsReply,
                   duration_min, natural_summary, saved, error, geminiReply>>

\* Lines 108-113 of main.py: gather hands back its result list (or the
\* first exception a task raised), the handler looks for an absent position,
\* and the surrounding `except Exception` re-raises whatever was raised.
GeocodingExcept(e) ==
    HTTPException(500, <<"Erro durante a geocodificacao: ">> \o Str(e))

AddressNotFound(failed_address) ==
    HTTPException(400, <<"Nominatim nao encontrou coordenadas para: '",
                         failed_address, "'">>)

Raised == {i \in Tasks : taskResult[i].kind = "raise"}

GeocodeBatchReturns ==
    /\ pc = "geocoding"
    /\ \/ \A i \in Tasks : taskpc[i] = "done"
       \/ Raised # {}
    /\ IF Raised # {}
       THEN /\ error' = GeocodingExcept(
                    taskResult[arrivals[Index(
                        [k \in 1..Len(arrivals) |-> arrivals[k] \in Raised],
                        TRUE)]].exc)
            /\ pc' = "failed"
            /\ UNCHANGED coordinates
       ELSE /\ coordinates' = results
            /\ IF NoneIn(results)
               THEN /\ error' = GeocodingExcept(
                            AddressNotFound(all_addresses[Index(results, None)]))
                    /\ pc' = "failed"
               ELSE /\ pc' = "routing"
                    /\ UNCHANGED error
    /\ UNCHANGED <<request, all_addresses, now, taskpc,
                   wake, sendTime, resp, taskResult, arrivals, results,
                   orsCalls, orsReply, duration_min, natural_summary, saved, geminiReply>>

----------------------------------------------------------------------------
(* RoutingService.get_route_with_ors: POST the coordinates, return the JSON
   body or raise what raise_for_status or the transport raised. *)

get_route_with_ors ==
    /\ pc = "routing"
    /\ orsCalls' = Append(orsCalls, [coordinates |-> coordinates])
    /\ \E reply \in OrsReplies : orsReply' = reply
    /\ pc' = "route_returned"
    /\ UNCHANGED <<request, all_addresses, now, taskpc,
                   wake, sendTime, resp, taskResult, arrivals, results,
                   coordinates, duration_min, natural_summary, saved, error, geminiReply>>

\* Lines 121-122 of main.py.
RouteExcept(e) ==
    HTTPException(500, <<"Erro ao calcular a rota: ">> \o Str(e))

\* Lines 118-122 of main.py: read the summary of the first feature.
ExtractSummary ==
    /\ pc = "route_returned"
    /\ IF orsReply.kind = "raise"
       THEN /\ error' = RouteExcept(orsReply.exc)
            /\ pc' = "failed"
            /\ UNCHANGED duration_min
       ELSE IF orsReply.features = 0
       THEN /\ error' = RouteExcept(IndexError)
            /\ pc' = "failed"
            /\ UNCHANGED duration_min
       ELSE /\ duration_min' = Round(orsReply.duration, 60)
            /\ pc' = "summarizing"
            /\ UNCHANGED error
    /\ UNCHANGED <<request, all_addresses, now, taskpc,
                   wake, sendTime, resp, taskResult, arrivals, results,
                   coordinates, orsCalls, orsReply, natural_summary, saved, geminiReply>>

\* Lines 124-135 of main.py: the summary text; a failure is not caught.
Summarize ==
    /\ pc = "summarizing"
    /\ \E g \in GeminiResponses :
        LET out == GenerateContent(g)
        IN  /\ geminiReply' = g
            /\ IF out.kind = "raise"
               THEN /\ error' = out.exc
                    /\ pc' = "failed"
                    /\ UNCHANGED natural_summary
               ELSE /\ natural_summary' = out.value
                    /\ pc' = "persisting"
                    /\ UNCHANGED error
    /\ UNCHANGED <<request, all_addresses, now, taskpc,
                   wake, sendTime, resp, taskResult, arrivals, results,
                   coordinates, orsCalls, orsReply, duration_min, saved>>

\* Lines 138-150 of main.py.
route_to_save ==
    [routeName |-> request.routeName,
     origin |-> request.origin,
     destination |-> request.destination,
     stops |-> request.stops,
     status |-> "Planejada",
     natural_summary |-> natural_summary,
     route_data |-> [total_duration_minutes |-> duration_min,
                     coordinates_used |-> coordinates]]

\* "no_db" stands for a process in which Firebase failed to initialise.
FirestoreWrites == {"ok", "no_db", "write_error"}

\* Lines 153-155 of main.py with FirebaseService.save_document.
SaveDocument ==
    /\ pc = "persisting"
    /\ \E w \in FirestoreWrites :
        IF w = "no_db"
        THEN /\ error' = HTTPException(500, <<"Firestore nao inicializado.">>)
             /\ pc' = "failed"
             /\ UNCHANGED saved
        ELSE IF w = "ok"
        THEN /\ saved' = Append(saved, route_to_save)
             /\ pc' = "done"
             /\ UNCHANGED error
        ELSE /\ error' = OtherException("GoogleAPICallError", <<"unavailable">>)
             /\ pc' = "failed"
             /\ UNCHANGED saved
    /\ UNCHANGED <<request, all_addresses, now, taskpc,
                   wake, sendTime, resp, taskResult, arrivals, results,
                   coordinates, orsCalls, orsReply, duration_min,
                   natural_summary, geminiReply>>

----------------------------------------------------------------------------
(* One request served by the endpoint *)

Next ==
    \/ ReceiveRequest
    \/ Tick
    \/ \E i \in Tasks : TaskSleep(i)
    \/ \E i \in Tasks : TaskSend(i)
    \/ \E i \in Tasks : TaskComplete(i)
    \/ GeocodeBatchReturns
    \/ get_route_with_ors
    \/ ExtractSummary
    \/ Summarize
    \/ SaveDocument

Spec == Init /\ [][Next]_vars

(* get_route_with_ors called on its own with an arbitrary coordinate list *)

CoordSet == {<<Float(NominatimData(a).lon), Float(NominatimData(a).lat)>> :
                a \in AddressSet}

InitRoute ==
    /\ pc = "routing"
    /\ coordinates \in UNION {[1..n -> CoordSet] : n \in 0..MaxCoords}
    /\ Idle

NextRoute == get_route_with_ors

SpecRoute == InitRoute /\ [][NextRoute]_vars

----------------------------------------------------------------------------
(* Vocabulary of the properties *)

Abs(x) == IF x < 0 THEN -x ELSE x

\* The geocoding batch has handed control back to the handler.
BatchOver == pc \notin {"idle", "geocoding"}

\* The lookup has issued its request to the geocoding provider.
Sent(i) == taskpc[i] \in {"waiting", "done"}

AbsentPositions(seq) == {i \in 1..Len(seq) : seq[i] = <<>>}

FirstOf(S) == CHOOSE i \in S : \A j \in S : i <= j

\* The coordinate the provider holds for an address, as [lon, lat].
CoordinateOf(address) ==
    IF address = "xyzzy" THEN <<-43, -22>> ELSE <<-46, -23>>

\* The address strings an error message quotes.
NamedAddresses(e) == {e.detail[k] : k \in 1..Len(e.detail)} \cap AddressSet

\* What tells two errors apart for a client: class, status and the kind of
\* message (its leading fragment).
ErrorKind(e) == <<e.class, e.status, e.detail[1]>>

\* The routing provider returned a route and its summary has been read.
RouteSummarized ==
    /\ pc \in {"summarizing", "persisting", "done", "failed"}
    /\ orsReply.kind = "json"
    /\ orsReply.features = 1

----------------------------------------------------------------------------
(* C1: whenever an address of the request geocodes to absent, the request
   fails with status 400. *)
C1_AbsentAddressIs400 ==
    (pc = "failed" /\ AbsentPositions(coordinates) # {}) => error.status = 400

(* C2: no two lookup requests of one batch are issued less than the
   provider's minimum interval apart. *)
C2_RateRespected ==
    \A i, j \in Tasks :
        (i # j /\ Sent(i) /\ Sent(j)) =>
            Abs(sendTime[i] - sendTime[j]) >= MinIntervalTicks

(* C3: the batch returns a list of the input's length whose i-th element is
   what the i-th lookup returned, whatever the order of completion. *)
C3_ResultsFollowInput ==
    BatchOver =>
        /\ Len(coordinates) = Len(all_addresses)
        /\ \A i \in Tasks :
            /\ taskResult[i].kind = "return"
            /\ coordinates[i] = taskResult[i].value

C3_Witness ==
    /\ BatchOver
    /\ Len(all_addresses) = 3
    /\ arrivals = <<3, 1, 2>>
    /\ coordinates = <<CoordinateOf(all_addresses[1]), <<>>,
                       CoordinateOf(all_addresses[3])>>
    /\ all_addresses[1] # all_addresses[3]

(* C4: a lookup that finds nothing, gets an HTTP error or times out yields
   absent at its own position and leaves every other lookup of the batch as
   it was; every lookup the provider resolves yields its coordinate in the
   batch's result. *)
C4_FailureIsLocal ==
    /\ [][\A i \in Tasks :
            (taskpc[i] = "waiting" /\ taskpc'[i] = "done" /\ resp'[i] # "found")
            => /\ taskResult'[i] = [kind |-> "return", value |-> <<>>,
                                    exc |-> NoError]
               /\ results'[i] = <<>>
               /\ \A j \in Tasks \ {i} :
                    /\ taskpc'[j] = taskpc[j]
                    /\ resp'[j] = resp[j]
                    /\ taskResult'[j] = taskResult[j]
                    /\ results'[j] = results[j]]_vars
    /\ [](BatchOver =>
            \A i \in Tasks :
                resp[i] = "found" =>
                    /\ Len(coordinates) >= i
                    /\ coordinates[i] = CoordinateOf(all_addresses[i]))

C4_Witness ==
    /\ BatchOver
    /\ Len(all_addresses) = 3
    /\ resp = <<"http_error", "timeout", "found">>
    /\ arrivals = <<1, 2, 3>>
    /\ coordinates[3] = CoordinateOf(all_addresses[3])

(* C5: the routing provider is called only once every lookup has completed
   and every position of the result holds a coordinate; with an absent
   position no routing call is made. *)
C5_RoutingAfterGeocoding ==
    /\ orsCalls # <<>> =>
        /\ \A i \in Tasks : taskpc[i] = "done"
        /\ Len(coordinates) = Len(all_addresses)
        /\ AbsentPositions(coordinates) = {}
        /\ \A k \in 1..Len(orsCalls) : orsCalls[k].coordinates = coordinates
    /\ AbsentPositions(coordinates) # {} => orsCalls = <<>>

C5_Witness ==
    /\ pc = "route_returned"
    /\ Len(orsCalls) = 1
    /\ Len(all_addresses) = 3
    /\ arrivals = <<2, 3, 1>>

(* C6: get_route_with_ors rejects a coordinate list shorter than 2 before
   any request goes out to the routing provider. *)
C6_ShortInputRejected ==
    \A k \in 1..Len(orsCalls) : Len(orsCalls[k].coordinates) >= 2

(* C7: the failure on an empty feature collection is distinguishable, by
   class, status or kind of message, from the failure on a transport or
   HTTP error of the routing call. *)
C7_NoRouteDistinct ==
    (pc = "failed" /\ orsReply.kind = "json" /\ orsReply.features = 0) =>
        \A r \in OrsReplies :
            r.kind = "raise" => ErrorKind(error) # ErrorKind(RouteExcept(r.exc))

(* C8: with one or more absent positions, the error names exactly the
   address at the first absent position of [origin] + stops + [destination]. *)
C8_FirstAbsentNamed ==
    (pc = "failed" /\ AbsentPositions(coordinates) # {}) =>
        NamedAddresses(error) =
            {all_addresses[FirstOf(AbsentPositions(coordinates))]}

C8_Witness ==
    /\ pc = "failed"
    /\ Len(all_addresses) = 3
    /\ AbsentPositions(coordinates) = {2, 3}
    /\ all_addresses[2] # all_addresses[3]
    /\ arrivals = <<3, 2, 1>>
    /\ NamedAddresses(error) = {all_addresses[2]}

(* C9 as stated: the duration is rounded to the nearest minute with halves
   rounded up; 149 seconds give 2 minutes and 150 seconds give 3. *)
C9_HalvesRoundUp ==
    RouteSummarized =>
        /\ 60 * duration_min <= orsReply.duration + 30
        /\ orsReply.duration + 30 < 60 * duration_min + 60
        /\ orsReply.duration = 149 => duration_min = 2
        /\ orsReply.duration = 150 => duration_min = 3

(* C9 as amended: the duration is rounded to the nearest minute with halves
   rounded to the even minute; 149 seconds give 2 minutes, 150 seconds give
   2 minutes and 90 seconds give 2 minutes. *)
C9_HalvesRoundToEven ==
    RouteSummarized =>
        /\ Abs(orsReply.duration - 60 * duration_min) <= 30
        /\ orsReply.duration % 60 = 30 => duration_min % 2 = 0
        /\ orsReply.duration = 149 => duration_min = 2
        /\ orsReply.duration = 150 => duration_min = 2
        /\ orsReply.duration = 90 => duration_min = 2

C9_Witness ==
    /\ RouteSummarized
    /\ pc = "summarizing"
    /\ orsReply.duration = 150
    /\ duration_min = 2

(* C10: a record is persisted at most once per request, and only after every
   address resolved, the routing call returned a route summary and the text
   generation succeeded; a failed request has an error and no record; every
   record has status "Planejada" and len(stops) + 2 coordinates. *)
C10_PersistOnlyOnSuccess ==
    /\ Len(saved) <= 1
    /\ saved # <<>> =>
        /\ pc = "done"
        /\ error = NoError
        /\ Len(coordinates) = Len(all_addresses)
        /\ AbsentPositions(coordinates) = {}
        /\ orsReply.kind = "json" /\ orsReply.features = 1
        /\ geminiReply = "ok"
        /\ saved[1].status = "Planejada"
        /\ Len(saved[1].route_data.coordinates_used) = Len(request.stops) + 2
    /\ pc = "failed" => (saved = <<>> /\ error # NoError)

C10_Witness ==
    /\ pc = "done"
    /\ Len(saved) = 1
    /\ Len(request.stops) = 1
    /\ Len(saved[1].route_data.coordinates_used) = 3

====
